---- MODULE Spec2Model ----
(***************************************************************************)
(* A model of the schema translator of enjoi-browser (lib/enjoi.js as      *)
(* bundled in src/rollup.config.js, lines 46-459).                         *)
(*                                                                         *)
(* The caller's schema documents live in a heap of JavaScript values, so   *)
(* that aliasing and assignment to a node's property are visible.  The     *)
(* recursion of resolve() is run as a machine with an explicit stack of    *)
(* pending calls (ctl) and a stack of built rules (vals): one action per   *)
(* function of the source.                                                 *)
(***************************************************************************)
EXTENDS Integers, Sequences, FiniteSets, TLC

VARIABLES heap, schema, subSchemas, types, refineType, strictMode,
          input, ctl, vals, status, result, warned

vars == <<heap, schema, subSchemas, types, refineType, strictMode,
          input, ctl, vals, status, result, warned>>

config == <<schema, subSchemas, types, refineType, strictMode, input>>

(***************************************************************************)
(* Bounds of the model.                                                    *)
(***************************************************************************)
MaxDepth == 24
MaxAllOf == 2
MaxTypes == 2

(***************************************************************************)
(* JavaScript values.  A value is a reference: a positive number is a cell *)
(* of the heap, Undefined is the value undefined and False the primitive   *)
(* false that the && of resolveref produces.  A cell has a tag t, the text *)
(* s of a string (a sequence of pieces, where "#" and "/" are pieces of    *)
(* their own), the number n (0 or 1 for a boolean), and for an object its  *)
(* keys k in insertion order with the values c; for an array its items c.  *)
(***************************************************************************)
Undefined == 0
False == 0 - 1

Tag(h, v) ==
  IF v = Undefined THEN "undefined" ELSE IF v = False THEN "bool" ELSE h[v].t

Truthy(h, v) ==
  CASE v = Undefined -> FALSE
    [] v = False -> FALSE
    [] h[v].t = "null" -> FALSE
    [] h[v].t = "bool" -> h[v].n = 1
    [] h[v].t = "num" -> h[v].n # 0
    [] h[v].t = "str" -> h[v].s # <<>>
    [] OTHER -> TRUE

Nullish(h, v) == Tag(h, v) \in {"undefined", "null"}

isArray(h, v) == Tag(h, v) = "arr"
isNumber(h, v) == Tag(h, v) = "num"
isObject(h, v) == Tag(h, v) \in {"obj", "arr"}
isUndefined(h, v) == Tag(h, v) = "undefined"

RECURSIVE Text(_)
Text(s) == IF s = <<>> THEN "" ELSE Head(s) \o Text(Tail(s))

IndexNames == <<"0", "1", "2", "3", "4", "5">>

\* Object.keys(v)
Keys(h, v) ==
  CASE Tag(h, v) = "obj" -> h[v].k
    [] Tag(h, v) = "arr" -> SubSeq(IndexNames, 1, Len(h[v].c))
    [] OTHER -> <<>>

\* v[key] for a value that is neither undefined nor null
Get(h, v, key) ==
  LET ks == Keys(h, v)
      hits == {i \in 1..Len(ks) : ks[i] = key}
  IN IF hits = {} THEN Undefined ELSE h[v].c[CHOOSE i \in hits : TRUE]

\* the text of a string value, "" for any other value
TextOf(h, v) == IF Tag(h, v) = "str" THEN Text(h[v].s) ELSE ""

\* the items of an array value
Items(h, v) == IF isArray(h, v) THEN h[v].c ELSE <<>>

Cell(t, s, n, k, c) == [t |-> t, s |-> s, n |-> n, k |-> k, c |-> c]

\* F(x), with x evaluated once
Bind(x, F(_)) == CHOOSE y \in {F(v) : v \in {x}} : TRUE

(***************************************************************************)
(* Documents as the caller writes them (trees), and their allocation in    *)
(* the heap.                                                               *)
(***************************************************************************)
JStr(s) == Cell("str", s, 0, <<>>, <<>>)
JS(x) == JStr(<<x>>)
JNum(n) == Cell("num", <<>>, n, <<>>, <<>>)
JBool(b) == Cell("bool", <<>>, IF b THEN 1 ELSE 0, <<>>, <<>>)
JNull == Cell("null", <<>>, 0, <<>>, <<>>)
JObj(k, c) == Cell("obj", <<>>, 0, k, c)
JArr(c) == Cell("arr", <<>>, 0, <<>>, c)
JUndefined == Cell("undefined", <<>>, 0, <<>>, <<>>)

\* the number of cells a document takes
RECURSIVE Size(_)
Size(tr) ==
  LET sizes[i \in 0..Len(tr.c)] ==
        IF i = 0 THEN 0 ELSE sizes[i - 1] + Size(tr.c[i])
  IN IF tr.t = "undefined" THEN 0 ELSE 1 + sizes[Len(tr.c)]

\* the cells of a document allocated after the first base cells of the heap,
\* a node after its children: the node itself is the last cell
RECURSIVE Cells(_, _)
Cells(tr, base) ==
  LET start[i \in 1..Len(tr.c) + 1] ==
        IF i = 1 THEN base ELSE start[i - 1] + Size(tr.c[i - 1])
      ref(i) == IF tr.c[i].t = "undefined" THEN Undefined
                ELSE start[i] + Size(tr.c[i])
      below[i \in 0..Len(tr.c)] ==
        IF i = 0 THEN <<>> ELSE below[i - 1] \o Cells(tr.c[i], start[i])
  IN IF tr.t = "undefined" THEN <<>>
     ELSE Append(below[Len(tr.c)],
                 Cell(tr.t, tr.s, tr.n, tr.k, [i \in 1..Len(tr.c) |-> ref(i)]))

LoadTree(h, tr) ==
  [h |-> h \o Cells(tr, Len(h)),
   v |-> IF tr.t = "undefined" THEN Undefined ELSE Len(h) + Size(tr)]

(***************************************************************************)
(* Validation rules.  A rule is what the chain of builder calls made of    *)
(* it: its base type, the flags set on it, the valued constraints in the   *)
(* order they were applied, and the child rules (with their keys, for an   *)
(* object rule).                                                           *)
(***************************************************************************)
Rule(kind) ==
  [kind |-> kind, flags |-> {}, attrs |-> <<>>, keys |-> <<>>, kids |-> <<>>,
   extra |-> <<>>]

\* a constraint whose argument is a number the code computes
NumAttr(a, n) == [a |-> a, t |-> "num", s |-> <<>>, n |-> n]

\* the argument of a builder call: a copy of a scalar, a reference otherwise
Attr(a, h, v) ==
  [a |-> a, t |-> Tag(h, v),
   s |-> IF Tag(h, v) = "str" THEN h[v].s ELSE <<>>,
   n |-> IF v = Undefined \/ v = False THEN 0
         ELSE IF h[v].t \in {"obj", "arr"} THEN v ELSE h[v].n]

With(rule, a, h, v) == [rule EXCEPT !.attrs = Append(@, Attr(a, h, v))]
Flag(rule, f) == [rule EXCEPT !.flags = @ \cup {f}]
WithIf(cond, rule, a, h, v) == IF cond THEN With(rule, a, h, v) ELSE rule

\* current[key] = n, on an object
SetNumber(h, current, key, n) ==
  LET id == Len(h) + 1
      h1 == Append(h, JNum(n))
      ks == h[current].k
      hits == {i \in 1..Len(ks) : ks[i] = key}
  IN IF hits = {}
     THEN [h1 EXCEPT ![current].k = Append(@, key), ![current].c = Append(@, id)]
     ELSE [h1 EXCEPT ![current].c[CHOOSE i \in hits : TRUE] = id]

number(h, current) ==
  LET typ == Get(h, current, "type")
      r0 == Rule("number")
      r1 == IF Tag(h, typ) = "str" /\ TextOf(h, typ) = "integer"
            THEN Flag(r0, "integer") ELSE r0
      mn == Get(h, current, "minimum")
      mx == Get(h, current, "maximum")
      xmn == Get(h, current, "exclusiveMinimum")
      xmx == Get(h, current, "exclusiveMaximum")
      mul == Get(h, current, "multipleOf")
      r2 == WithIf(isNumber(h, mn), r1, "min", h, mn)
      r3 == WithIf(isNumber(h, mx), r2, "max", h, mx)
      r4 == WithIf(isNumber(h, xmn), r3, "greater", h, xmn)
      r5 == WithIf(isNumber(h, xmx), r4, "less", h, xmx)
  IN WithIf(isNumber(h, mul) /\ h[mul].n # 0, r5, "multiple", h, mul)

date(h, current) ==
  LET mn == Get(h, current, "minimum")
      mx == Get(h, current, "maximum")
      r1 == WithIf(Truthy(h, mn), Rule("date"), "min", h, mn)
  IN WithIf(Truthy(h, mx), r1, "max", h, mx)

binary(h, current) ==
  LET mn == Get(h, current, "minLength")
      mx == Get(h, current, "maxLength")
      r1 == WithIf(Truthy(h, mn), Rule("binary"), "min", h, mn)
  IN WithIf(Truthy(h, mx), r1, "max", h, mx)

\* returns the rule and the heap, for current.minLength is assigned here
regularString(h, current, joischema) ==
  LET pat == Get(h, current, "pattern")
      r1 == WithIf(Truthy(h, pat), joischema, "regex", h, pat)
      h1 == IF isUndefined(h, Get(h, current, "minLength"))
            THEN SetNumber(h, current, "minLength", 0) ELSE h
      ml == Get(h1, current, "minLength")
      r2 == IF isNumber(h1, ml)
            THEN With(IF h1[ml].n = 0 THEN Flag(r1, "allowEmpty") ELSE r1,
                      "min", h1, ml)
            ELSE r1
      mxl == Get(h1, current, "maxLength")
  IN [rule |-> WithIf(isNumber(h1, mxl), r2, "max", h1, mxl), h |-> h1]

StringFormats == {"email", "hostname", "ipv4", "ipv6", "uri", "byte"}

string(h, current) ==
  LET en == Get(h, current, "enum")
      fmt == TextOf(h, Get(h, current, "format"))
  IN CASE Truthy(h, en) -> [rule |-> With(Rule("any"), "valid", h, en), h |-> h]
       [] ~Truthy(h, en) /\ fmt \in {"date", "date-time"} ->
            [rule |-> date(h, current), h |-> h]
       [] ~Truthy(h, en) /\ fmt = "binary" ->
            [rule |-> binary(h, current), h |-> h]
       [] OTHER ->
            regularString(h, current,
                          IF fmt \in StringFormats THEN Flag(Rule("string"), fmt)
                          ELSE Rule("string"))

(***************************************************************************)
(* The reference resolver.                                                 *)
(***************************************************************************)
\* s.indexOf(x) + 1: the position of the first x in s, 0 when there is none
IndexOf(s, x) ==
  Bind(s, LAMBDA t :
    Bind({i \in 1..Len(t) : t[i] = x}, LAMBDA hits :
      IF hits = {} THEN 0 ELSE CHOOSE i \in hits : \A j \in hits : i <= j))

\* s.split(sep)
RECURSIVE Split(_, _)
Split(s, sep) ==
  Bind(s, LAMBDA t :
    Bind(IndexOf(t, sep), LAMBDA p :
      IF p = 0 THEN <<t>>
      ELSE <<SubSeq(t, 1, p - 1)>> \o Split(SubSeq(t, p + 1, Len(t)), sep)))

\* the loop of resolveref over paths[i], i >= 1
RECURSIVE Walk(_, _, _)
Walk(h, fragment, paths) ==
  Bind(fragment, LAMBDA f :
    Bind(paths, LAMBDA p :
      IF p = <<>> \/ ~Truthy(h, f) THEN f
      ELSE Walk(h,
                IF Tag(h, f) \in {"obj", "arr"}
                THEN Get(h, f, Text(Head(p))) ELSE False,
                Tail(p))))

\* the lookup without the second try, under the id less its "#"
CandidateExactOnly(h, root, subs, id) ==
  LET byId == Get(h, subs, Text(id))
      found == IF id # <<>> /\ Truthy(h, subs) THEN byId ELSE Undefined
  IN IF Truthy(h, found) THEN found ELSE root

\* the schema the reference is looked up in
Candidate(h, root, subs, id) ==
  LET byId == Get(h, subs, Text(id))
      byStripped == Get(h, subs, Text(SubSeq(id, 1, Len(id) - 1)))
      found == IF id # <<>> /\ Truthy(h, subs)
               THEN (IF Truthy(h, byId) THEN byId ELSE byStripped)
               ELSE Undefined
  IN IF Truthy(h, found) THEN found ELSE root

resolveref(h, root, subs, value) ==
  IF Tag(h, value) # "str" THEN [err |-> "TypeError", v |-> Undefined]
  ELSE LET s == h[value].s
           p == IndexOf(s, "#")
           id == SubSeq(s, 1, p)
           path == SubSeq(s, p + 1, Len(s))
           refschema == Candidate(h, root, subs, id)
       IN IF ~Truthy(h, refschema)
          THEN [err |-> "ReferenceError", v |-> Undefined]
          ELSE [err |-> "", v |-> Walk(h, refschema, Tail(Split(path, "/")))]

(***************************************************************************)
(* The merge engine.  Every operator returns err, the kind of the error    *)
(* thrown ("" for none), next to its value.                                *)
(***************************************************************************)
getSchemaType(h, root, subs, current) ==
  IF Nullish(h, current) THEN [err |-> "TypeError", v |-> Undefined]
  ELSE IF Truthy(h, Get(h, current, "type"))
       THEN [err |-> "", v |-> Get(h, current, "type")]
  ELSE IF Truthy(h, Get(h, current, "$ref"))
       THEN Bind(resolveref(h, root, subs, Get(h, current, "$ref")), LAMBDA r :
              IF r.err # "" THEN r
              ELSE IF Nullish(h, r.v) THEN [err |-> "TypeError", v |-> Undefined]
              ELSE [err |-> "", v |-> Get(h, r.v, "type")])
  ELSE [err |-> "", v |-> Undefined]

\* type === _type, for the values of two type keywords
SameType(h, a, b) ==
  \/ a = b
  \/ Tag(h, a) = "str" /\ Tag(h, b) = "str" /\ h[a].s = h[b].s

\* the checks of resolveAllOf on the members, in order: the first error
RECURSIVE CheckMembers(_, _, _, _, _)
CheckMembers(h, root, subs, type, members) ==
  IF members = <<>> THEN ""
  ELSE Bind(getSchemaType(h, root, subs, Head(members)), LAMBDA t :
         IF t.err # "" THEN t.err
         ELSE IF ~(/\ Tag(h, t.v) = "str"
                   /\ TextOf(h, t.v) \in {"array", "object"}
                   /\ SameType(h, type, t.v))
              THEN "MergeTypeError"
         ELSE CheckMembers(h, root, subs, type, Tail(members)))

\* the member itself, or what its $ref points to
Deref(h, root, subs, item) ==
  IF Nullish(h, item) THEN [err |-> "TypeError", v |-> Undefined]
  ELSE IF Truthy(h, Get(h, item, "$ref"))
       THEN resolveref(h, root, subs, Get(h, item, "$ref"))
  ELSE [err |-> "", v |-> item]

\* Object.assign where a key that is already set keeps its value
RECURSIVE AssignKeepFirst(_, _, _, _)
AssignKeepFirst(k, c, sk, sc) ==
  IF sk = <<>> THEN [k |-> k, c |-> c]
  ELSE IF IndexOf(k, Head(sk)) = 0
       THEN AssignKeepFirst(Append(k, Head(sk)), Append(c, Head(sc)),
                            Tail(sk), Tail(sc))
       ELSE AssignKeepFirst(k, c, Tail(sk), Tail(sc))

\* Object.assign(properties, source) on the keys k and values c
RECURSIVE Assign(_, _, _, _)
Assign(k, c, sk, sc) ==
  IF sk = <<>> THEN [k |-> k, c |-> c]
  ELSE LET p == IndexOf(k, Head(sk))
       IN IF p = 0
          THEN Assign(Append(k, Head(sk)), Append(c, Head(sc)), Tail(sk), Tail(sc))
          ELSE Assign(k, [c EXCEPT ![p] = Head(sc)], Tail(sk), Tail(sc))

\* required.concat(x || [])
ConcatOr(h, list, x) ==
  IF ~Truthy(h, x) THEN list
  ELSE IF isArray(h, x) THEN list \o h[x].c ELSE Append(list, x)

RECURSIVE MergeObjectLoop(_, _, _, _, _, _, _)
MergeObjectLoop(h, root, subs, items, k, c, required) ==
  IF items = <<>> THEN [err |-> "", k |-> k, c |-> c, required |-> required]
  ELSE Bind(Deref(h, root, subs, Head(items)), LAMBDA d :
         IF d.err # "" \/ Nullish(h, d.v)
         THEN [err |-> IF d.err # "" THEN d.err ELSE "TypeError",
               k |-> k, c |-> c, required |-> required]
         ELSE Bind(Get(h, d.v, "properties"), LAMBDA props :
                Bind(Assign(k, c, Keys(h, props),
                            IF isObject(h, props) THEN h[props].c ELSE <<>>), LAMBDA a :
                  Bind(ConcatOr(h, required, Get(h, d.v, "required")), LAMBDA req :
                    MergeObjectLoop(h, root, subs, Tail(items), a.k, a.c, req)))))

\* returns the merged node v allocated in the heap h
mergeObject(h, root, subs, current) ==
  Bind(MergeObjectLoop(h, root, subs, Items(h, current), <<>>, <<>>, <<>>), LAMBDA m :
    LET n == Len(h)
        h1 == h \o <<JS("object"), JObj(m.k, m.c)>>
        h2 == IF m.required # <<>> THEN Append(h1, JArr(m.required)) ELSE h1
        node == JObj(<<"type", "properties", "required">>,
                     <<n + 1, n + 2, IF m.required # <<>> THEN n + 3 ELSE Undefined>>)
    IN IF m.err # "" THEN [err |-> m.err, h |-> h, v |-> Undefined]
       ELSE [err |-> "", h |-> Append(h2, node), v |-> Len(h2) + 1])

RECURSIVE MergeArrayLoop(_, _, _, _, _, _)
MergeArrayLoop(h, root, subs, members, items, ordered) ==
  IF members = <<>> THEN [err |-> "", items |-> items, ordered |-> ordered]
  ELSE Bind(Deref(h, root, subs, Head(members)), LAMBDA d :
         IF d.err # "" \/ Nullish(h, d.v)
         THEN [err |-> IF d.err # "" THEN d.err ELSE "TypeError",
               items |-> items, ordered |-> ordered]
         ELSE Bind(Get(h, d.v, "items"), LAMBDA its :
                IF isArray(h, its)
                THEN Bind(items \o h[its].c, LAMBDA all :
                       Bind(ConcatOr(h, ordered, Get(h, d.v, "ordered")), LAMBDA ord :
                         MergeArrayLoop(h, root, subs, Tail(members), all, ord)))
                ELSE Bind(Append(items, its), LAMBDA all :
                       MergeArrayLoop(h, root, subs, Tail(members), all, ordered))))

mergeArray(h, root, subs, current) ==
  Bind(MergeArrayLoop(h, root, subs, Items(h, current), <<>>, <<>>), LAMBDA m :
    LET n == Len(h)
        h1 == h \o <<JS("array"), JArr(m.items)>>
        h2 == IF m.ordered # <<>> THEN Append(h1, JArr(m.ordered)) ELSE h1
        node == JObj(<<"type", "items", "ordered">>,
                     <<n + 1, n + 2, IF m.ordered # <<>> THEN n + 3 ELSE Undefined>>)
    IN IF m.err # "" THEN [err |-> m.err, h |-> h, v |-> Undefined]
       ELSE [err |-> "", h |-> Append(h2, node), v |-> Len(h2) + 1])

(***************************************************************************)
(* The machine.  ctl is the stack of pending calls, its head the call that *)
(* runs next; a task names the function, the node c it works on, and a     *)
(* text s and a number n as the function needs them.  vals is the stack of *)
(* rules built so far, its head the latest.                                *)
(***************************************************************************)
Task(op, c, s, n) == [op |-> op, c |-> c, s |-> s, n |-> n]

Running == status = "running" /\ ctl # <<>> /\ Len(ctl) <= MaxDepth
Top == Head(ctl)

Replace(tasks) == ctl' = tasks \o Tail(ctl)
Push(r) == vals' = <<r>> \o vals

\* the n latest rules, oldest first
Latest(n) == [i \in 1..n |-> vals[n + 1 - i]]
Drop(n) == SubSeq(vals, n + 1, Len(vals))

Throw(kind) ==
  /\ status' = kind
  /\ ctl' = <<>>
  /\ vals' = <<>>

\* resolve(v) for each v of vs, in order
Resolves(vs) == [i \in 1..Len(vs) |-> Task("resolve", vs[i], "", 0)]

\* module.exports: the validation of the arguments, then resolve(schema)
translate ==
  /\ status = "init"
  /\ IF /\ \/ Tag(heap, schema) = "obj"
           \/ Tag(heap, schema) = "str" /\ heap[schema].s # <<>>
        /\ Tag(heap, subSchemas) \in {"obj", "null", "undefined"}
     THEN /\ status' = "running"
          /\ ctl' = <<Task("resolve", schema, "", 0)>>
     ELSE /\ status' = "ConfigurationError"
          /\ ctl' = <<>>
  /\ UNCHANGED <<heap, config, vals, result, warned>>

\* resolve with the $ref test moved in front of the type test
ClassifyRefFirst(h, current) ==
  CASE Truthy(h, Get(h, current, "$ref")) -> "followRef"
    [] OTHER ->
  CASE Truthy(h, Get(h, current, "type")) -> "resolvetype"
    [] OTHER ->
  CASE Truthy(h, Get(h, current, "anyOf")) -> "resolveAnyOf"
    [] OTHER ->
  CASE Truthy(h, Get(h, current, "allOf")) -> "resolveAllOf"
    [] OTHER ->
  CASE Truthy(h, Get(h, current, "oneOf")) -> "resolveOneOf"
    [] OTHER ->
  CASE Truthy(h, Get(h, current, "not")) -> "resolveNot"
    [] OTHER ->
  CASE Truthy(h, Get(h, current, "enum")) -> "enumOnly"
    [] OTHER ->
  CASE Tag(h, current) = "str" -> "shorthand"
    [] OTHER -> "fallback"

\* the branch resolve(current) takes
Classify(h, current) ==
  CASE Truthy(h, Get(h, current, "type")) -> "resolvetype"
    [] OTHER ->
  CASE Truthy(h, Get(h, current, "anyOf")) -> "resolveAnyOf"
    [] OTHER ->
  CASE Truthy(h, Get(h, current, "allOf")) -> "resolveAllOf"
    [] OTHER ->
  CASE Truthy(h, Get(h, current, "oneOf")) -> "resolveOneOf"
    [] OTHER ->
  CASE Truthy(h, Get(h, current, "not")) -> "resolveNot"
    [] OTHER ->
  CASE Truthy(h, Get(h, current, "$ref")) -> "followRef"
    [] OTHER ->
  CASE Truthy(h, Get(h, current, "enum")) -> "enumOnly"
    [] OTHER ->
  CASE Tag(h, current) = "str" -> "shorthand"
    [] OTHER -> "fallback"

resolve ==
  /\ Running /\ Top.op = "resolve"
  /\ IF Nullish(heap, Top.c)
     THEN Throw("TypeError")
     ELSE /\ Replace(<<Task(Classify(heap, Top.c), Top.c, "", 0),
                       Task("leave", Top.c, "", 0)>>)
          /\ UNCHANGED <<vals, status>>
  /\ UNCHANGED <<heap, config, result, warned>>

\* resolve(current) that does not return
leaveNever ==
  /\ Running /\ Top.op = "leave"
  /\ UNCHANGED vars

\* resolve(current) returns
leave ==
  /\ Running /\ Top.op = "leave"
  /\ Replace(<<>>)
  /\ UNCHANGED <<heap, config, vals, status, result, warned>>

\* the call of refineType
Refine(fn, type, format) ==
  CASE fn = "none" -> type
    [] fn = "alias" /\ type = "int" -> "integer"
    [] fn = "alias" /\ type = "number" /\ format = "int32" -> "integer"
    [] OTHER -> type

resolvetype ==
  /\ Running /\ Top.op = "resolvetype"
  /\ LET current == Top.c
         type == Get(heap, current, "type")
     IN IF isArray(heap, type)
        THEN Replace([i \in 1..Len(heap[type].c) |->
                        Task("joitype", current, "", heap[type].c[i])]
                     \o <<Task("alternatives", current, "type", Len(heap[type].c)),
                          Task("decorate", current, "", 0)>>)
        ELSE Replace(<<Task("joitype", current, "", type),
                       Task("decorate", current, "", 0)>>)
  /\ UNCHANGED <<heap, config, vals, status, result, warned>>

\* the switch of joitype on the types that are built without resolving
\* children: the rule (kind "none" when there is none) and the heap
joischema(h, tps, current, type) ==
  CASE type = "boolean" -> [rule |-> Rule("boolean"), h |-> h]
    [] type \in {"integer", "number"} -> [rule |-> number(h, current), h |-> h]
    [] type = "string" -> string(h, current)
    [] type = "null" ->
         [rule |-> [Rule("any") EXCEPT
                      !.attrs = <<[a |-> "valid", t |-> "null", s |-> <<>>, n |-> 0]>>],
          h |-> h]
    [] OTHER ->
         [rule |-> IF type \in tps
                   THEN [Rule("custom") EXCEPT
                           !.attrs = <<[a |-> "type", t |-> "str", s |-> <<type>>,
                                        n |-> 0]>>]
                   ELSE Rule("none"),
          h |-> h]

Strict(mode, rule) == IF mode THEN Flag(rule, "strict") ELSE rule

joitype ==
  /\ Running /\ Top.op = "joitype"
  /\ LET current == Top.c
         type == Refine(refineType, TextOf(heap, Top.n),
                        TextOf(heap, Get(heap, current, "format")))
         built == joischema(heap, types, current, type)
     IN CASE type \in {"array", "object"} ->
               /\ Replace(<<Task(type, current, "", 0), Task("strict", current, "", 0)>>)
               /\ UNCHANGED <<heap, vals, status>>
          [] type \notin {"array", "object"} /\ built.rule.kind = "none" ->
               /\ Throw("UnresolvedTypeError")
               /\ UNCHANGED heap
          [] OTHER ->
               /\ Replace(<<>>)
               /\ Push(Strict(strictMode, built.rule))
               /\ heap' = built.h
               /\ UNCHANGED status
  /\ UNCHANGED <<config, result, warned>>

\* joischema.strict(strictMode), for the rules built over several steps
strict ==
  /\ Running /\ Top.op = "strict"
  /\ Replace(<<>>)
  /\ vals' = <<Strict(strictMode, Head(vals))>> \o Tail(vals)
  /\ UNCHANGED <<heap, config, status, result, warned>>

decorate ==
  /\ Running /\ Top.op = "decorate"
  /\ LET current == Top.c
         d == Get(heap, current, "description")
         t == Get(heap, current, "title")
         f == Get(heap, current, "default")
         r1 == WithIf(Truthy(heap, d), Head(vals), "description", heap, d)
         r2 == WithIf(Truthy(heap, t), r1, "label", heap, t)
         r3 == WithIf(Truthy(heap, f), r2, "default", heap, f)
     IN vals' = <<r3>> \o Tail(vals)
  /\ Replace(<<>>)
  /\ UNCHANGED <<heap, config, status, result, warned>>

\* resolveAsArray(value), as the list of nodes it resolves
AsArray(h, value) == IF isArray(h, value) THEN h[value].c ELSE <<value>>

array ==
  /\ Running /\ Top.op = "array"
  /\ LET current == Top.c
         items == Get(heap, current, "items")
         ordered == Get(heap, current, "ordered")
     IN CASE Truthy(heap, items) ->
               Replace(Resolves(AsArray(heap, items))
                       \o <<Task("arrayRest", current, "items",
                                 Len(AsArray(heap, items)))>>)
          [] ~Truthy(heap, items) /\ Truthy(heap, ordered) ->
               Replace(Resolves(AsArray(heap, ordered))
                       \o <<Task("arrayRest", current, "ordered",
                                 Len(AsArray(heap, ordered)))>>)
          [] OTHER -> Replace(<<Task("arrayRest", current, "", 0)>>)
  /\ UNCHANGED <<heap, config, vals, status, result, warned>>

\* array(current) once the item rules are built
arrayRest ==
  /\ Running /\ Top.op = "arrayRest"
  /\ LET current == Top.c
         n == Top.n
         r0 == [Rule("array") EXCEPT !.kids = Latest(n),
                                     !.flags = IF Top.s = "" THEN {} ELSE {Top.s}]
         ai == Get(heap, current, "additionalItems")
         r1 == IF Top.s # "" /\ Tag(heap, ai) = "bool" /\ ~Truthy(heap, ai)
               THEN [r0 EXCEPT !.attrs = Append(@, NumAttr("max", n))] ELSE r0
         mn == Get(heap, current, "minItems")
         mx == Get(heap, current, "maxItems")
         r2 == WithIf(isNumber(heap, mn), r1, "min", heap, mn)
         r3 == WithIf(isNumber(heap, mx), r2, "max", heap, mx)
         r4 == IF Truthy(heap, Get(heap, current, "uniqueItems"))
               THEN Flag(r3, "unique") ELSE r3
     IN vals' = <<r4>> \o Drop(n)
  /\ Replace(<<>>)
  /\ UNCHANGED <<heap, config, status, result, warned>>

\* object(current): resolveproperties, then additionalProperties
object ==
  /\ Running /\ Top.op = "object"
  /\ LET current == Top.c
         props == Get(heap, current, "properties")
         keys == Keys(heap, props)
         ap == Get(heap, current, "additionalProperties")
         each(i) == <<Task("resolve", heap[props].c[i], "", 0),
                      Task("required", current, keys[i], 0)>>
         all[i \in 0..Len(keys)] == IF i = 0 THEN <<>> ELSE all[i - 1] \o each(i)
     IN Replace((IF isObject(heap, props) THEN all[Len(keys)] ELSE <<>>)
                \o (IF isObject(heap, ap) THEN <<Task("resolve", ap, "", 0)>> ELSE <<>>)
                \o <<Task("objectRest", current,
                          IF isObject(heap, props) THEN "properties" ELSE "",
                          Len(keys))>>)
  /\ UNCHANGED <<heap, config, vals, status, result, warned>>

\* current.required && !!~current.required.indexOf(key)
Listed(h, required, key) ==
  /\ Truthy(h, required)
  /\ IF isArray(h, required)
     THEN \E i \in 1..Len(h[required].c) :
             LET e == h[required].c[i]
             IN Tag(h, e) = "str" /\ Text(h[e].s) = key
     ELSE IndexOf(h[required].s, key) # 0

\* resolveproperties, after resolve(property)
required ==
  /\ Running /\ Top.op = "required"
  /\ LET req == Get(heap, Top.c, "required")
     IN IF Truthy(heap, req) /\ Tag(heap, req) \notin {"arr", "str"}
        THEN Throw("TypeError")
        ELSE /\ Replace(<<>>)
             /\ vals' = <<IF Listed(heap, req, Top.s)
                          THEN Flag(Head(vals), "required") ELSE Head(vals)>>
                        \o Tail(vals)
             /\ UNCHANGED status
  /\ UNCHANGED <<heap, config, result, warned>>

\* object(current) once the property rules are built
objectRest ==
  /\ Running /\ Top.op = "objectRest"
  /\ LET current == Top.c
         n == Top.n
         ap == Get(heap, current, "additionalProperties")
         hasPattern == isObject(heap, ap)
         rules == IF hasPattern THEN Tail(vals) ELSE vals
         kids == [i \in 1..n |-> rules[n + 1 - i]]
         r0 == [Rule("object") EXCEPT
                  !.keys = Keys(heap, Get(heap, current, "properties")),
                  !.kids = kids,
                  !.flags = IF Top.s = "" THEN {} ELSE {"keys"}]
         r1 == IF Tag(heap, ap) = "bool" /\ Truthy(heap, ap)
               THEN Flag(r0, "unknown") ELSE r0
         r2 == IF hasPattern THEN [r1 EXCEPT !.extra = <<Head(vals)>>] ELSE r1
         mn == Get(heap, current, "minProperties")
         mx == Get(heap, current, "maxProperties")
         r3 == WithIf(isNumber(heap, mn), r2, "min", heap, mn)
         r4 == WithIf(isNumber(heap, mx), r3, "max", heap, mx)
     IN vals' = <<r4>> \o SubSeq(rules, n + 1, Len(rules))
  /\ Replace(<<>>)
  /\ UNCHANGED <<heap, config, status, result, warned>>

\* the combinator applied to the member rules: Joi.alternatives(schemas),
\* .try(...), .try(...).required(), .when(...)
alternatives ==
  /\ Running /\ Top.op = "alternatives"
  /\ LET alt == [Rule("alternatives") EXCEPT !.kids = Latest(Top.n)]
         rule == CASE Top.s = "oneOf" -> Flag(alt, "required")
                   [] Top.s = "not" ->
                        [Rule("alternatives") EXCEPT
                           !.flags = {"when"},
                           !.extra = <<alt>>,
                           !.kids = <<Flag(Rule("any"), "forbidden"), Rule("any")>>]
                   [] OTHER -> alt
     IN vals' = <<rule>> \o Drop(Top.n)
  /\ Replace(<<>>)
  /\ UNCHANGED <<heap, config, status, result, warned>>

\* the three combinators that resolve every member: anyOf, oneOf, not
Members(keyword) ==
  /\ LET list == Get(heap, Top.c, keyword)
     IN IF ~isArray(heap, list)
        THEN Throw("ShapeError")
        ELSE /\ Replace(Resolves(heap[list].c)
                        \o <<Task("alternatives", Top.c, keyword, Len(heap[list].c))>>)
             /\ UNCHANGED <<vals, status>>
  /\ UNCHANGED <<heap, config, result, warned>>

resolveAnyOf == Running /\ Top.op = "resolveAnyOf" /\ Members("anyOf")
resolveOneOf == Running /\ Top.op = "resolveOneOf" /\ Members("oneOf")
resolveNot == Running /\ Top.op = "resolveNot" /\ Members("not")

resolveAllOf ==
  /\ Running /\ Top.op = "resolveAllOf"
  /\ \E list \in {Get(heap, Top.c, "allOf")} :
       IF ~isArray(heap, list) THEN Throw("ShapeError") /\ UNCHANGED heap
       ELSE
       \E type \in {getSchemaType(heap, schema, subSchemas,
                                   IF Len(Items(heap, list)) = 0 THEN Undefined
                                   ELSE heap[list].c[1])} :
       \E check \in {IF type.err # "" THEN type.err
                     ELSE CheckMembers(heap, schema, subSchemas, type.v,
                                       Items(heap, list))} :
       IF check # "" THEN Throw(check) /\ UNCHANGED heap
       ELSE
       \E merged \in {IF TextOf(heap, type.v) = "object"
                      THEN mergeObject(heap, schema, subSchemas, list)
                      ELSE mergeArray(heap, schema, subSchemas, list)} :
       IF merged.err # "" THEN Throw(merged.err) /\ UNCHANGED heap
       ELSE /\ heap' = merged.h
            /\ Replace(<<Task("resolve", merged.v, "", 0)>>)
            /\ UNCHANGED <<vals, status>>
  /\ UNCHANGED <<config, result, warned>>

\* resolve(resolveref(current.$ref))
followRef ==
  /\ Running /\ Top.op = "followRef"
  /\ \E r \in {resolveref(heap, schema, subSchemas, Get(heap, Top.c, "$ref"))} :
       IF r.err # "" THEN Throw(r.err)
       ELSE /\ Replace(<<Task("resolve", r.v, "", 0)>>)
            /\ UNCHANGED <<vals, status>>
  /\ UNCHANGED <<heap, config, result, warned>>

\* Joi.any().valid(current.enum)
enumOnly ==
  /\ Running /\ Top.op = "enumOnly"
  /\ Replace(<<>>)
  /\ Push(With(Rule("any"), "valid", heap, Get(heap, Top.c, "enum")))
  /\ UNCHANGED <<heap, config, status, result, warned>>

\* resolvetype({ type: current })
shorthand ==
  /\ Running /\ Top.op = "shorthand"
  /\ heap' = Append(heap, JObj(<<"type">>, <<Top.c>>))
  /\ Replace(<<Task("resolvetype", Len(heap) + 1, "", 0)>>)
  /\ UNCHANGED <<config, vals, status, result, warned>>

\* console.warn, Joi.any()
fallback ==
  /\ Running /\ Top.op = "fallback"
  /\ warned' = TRUE
  /\ Replace(<<>>)
  /\ Push(Rule("any"))
  /\ UNCHANGED <<heap, config, status, result>>

\* return resolve(schema)
finish ==
  /\ status = "running" /\ ctl = <<>>
  /\ status' = "done"
  /\ result' = Head(vals)
  /\ vals' = <<>>
  /\ UNCHANGED <<heap, config, ctl, warned>>

Next ==
  \/ translate \/ resolve \/ leave \/ resolvetype \/ joitype \/ strict
  \/ decorate \/ array \/ arrayRest \/ object \/ required \/ objectRest
  \/ alternatives \/ resolveAnyOf \/ resolveOneOf \/ resolveNot
  \/ resolveAllOf \/ followRef \/ enumOnly \/ shorthand \/ fallback \/ finish

(***************************************************************************)
(* The calls translate(schema, options) the model runs: families of        *)
(* documents, each with the options it is translated under.                *)
(***************************************************************************)
O1(k1, v1) == JObj(<<k1>>, <<v1>>)
O2(k1, v1, k2, v2) == JObj(<<k1, k2>>, <<v1, v2>>)
O3(k1, v1, k2, v2, k3, v3) == JObj(<<k1, k2, k3>>, <<v1, v2, v3>>)
O4(k1, v1, k2, v2, k3, v3, k4, v4) == JObj(<<k1, k2, k3, k4>>, <<v1, v2, v3, v4>>)

\* the object with the key k added last
Plus(obj, k, v) == [obj EXCEPT !.k = Append(@, k), !.c = Append(@, v)]

\* the same, where JUndefined stands for a key the document leaves out
Opt(obj, k, v) == IF v.t = "undefined" THEN obj ELSE Plus(obj, k, v)

Typed(name) == O1("type", JS(name))
Ref(uri) == O1("$ref", JStr(uri))

Definitions ==
  JObj(<<"x", "o", "s", "one", "arr", "n">>,
       <<Typed("boolean"),
         O3("type", JS("object"),
            "properties", O2("r", Typed("string"), "a", Typed("boolean")),
            "required", JArr(<<JS("r")>>)),
         JS("string"),
         O1("oneOf", JArr(<<Typed("string")>>)),
         O2("type", JS("array"), "items", JArr(<<Typed("number")>>)),
         O2("type", JS("number"), "minimum", JNum(0))>>)

Input(sch, subs, tps, fn, strictly) ==
  [schema |-> sch, subSchemas |-> subs, types |-> tps, refineType |-> fn,
   strictMode |-> strictly]

Plain(sch) == Input(sch, JUndefined, {}, "none", FALSE)

\* nodes carrying any subset of the keywords resolve looks at
Keywords == {"type", "anyOf", "allOf", "oneOf", "not", "$ref", "enum"}

KeywordValue(k, empty) ==
  CASE k = "type" -> IF empty THEN JStr(<<>>) ELSE JS("boolean")
    [] k = "anyOf" -> JArr(<<Typed("string")>>)
    [] k = "allOf" -> JArr(<<O2("type", JS("object"),
                                "properties", O1("a", Typed("number")))>>)
    [] k = "oneOf" -> JArr(<<Typed("number")>>)
    [] k = "not" -> JArr(<<Typed("string")>>)
    [] k = "$ref" -> JStr(<<"#", "/", "definitions", "/", "x">>)
    [] k = "enum" -> IF empty THEN JNull ELSE JArr(<<JS("a"), JS("b")>>)

KeywordOrder == <<"enum", "$ref", "not", "oneOf", "allOf", "anyOf", "type">>

KeywordNode(K, empty) ==
  LET ks == SelectSeq(KeywordOrder, LAMBDA k : k \in K)
  IN Plus(JObj(ks, [i \in 1..Len(ks) |-> KeywordValue(ks[i], empty)]),
          "definitions", Definitions)

DispatchInputs ==
  {Plain(KeywordNode(K, e)) : K \in SUBSET Keywords, e \in BOOLEAN}
  \cup {Plain(JS("string")), Plain(JS("bogus")), Plain(JStr(<<>>)),
        Plain(JNum(3)), Plain(JArr(<<>>)), Plain(JObj(<<>>, <<>>)),
        Plain(O1("foo", JS("bar")))}

\* object schemas: two properties of every shape, every required list
PropertyShapes ==
  {Typed("string"),
   Ref(<<"#", "/", "definitions", "/", "x">>),
   Ref(<<"#", "/", "definitions", "/", "one">>),
   O1("anyOf", JArr(<<Typed("string")>>)),
   O1("oneOf", JArr(<<Typed("string"), Typed("number")>>)),
   O1("not", JArr(<<Typed("string")>>)),
   O1("enum", JArr(<<JS("a")>>)),
   JS("number")}

SecondShapes ==
  {Typed("integer"), O1("oneOf", JArr(<<Typed("boolean")>>)), JObj(<<>>, <<>>)}

RequiredLists ==
  {JUndefined, JArr(<<>>), JArr(<<JS("a")>>), JArr(<<JS("b")>>),
   JArr(<<JS("b"), JS("a")>>), JArr(<<JS("c")>>)}

ObjectInputs ==
  {Plain(Opt(O3("type", JS("object"),
                "properties", O2("a", p, "b", q),
                "definitions", Definitions),
             "required", r)) :
     p \in PropertyShapes, q \in SecondShapes, r \in RequiredLists}

\* allOf lists of up to MaxAllOf members
MemberShapes ==
  {O3("type", JS("object"), "properties", O1("a", Typed("string")),
      "required", JArr(<<JS("a")>>)),
   O3("type", JS("object"),
      "properties", O2("b", Typed("boolean"), "a", Typed("number")),
      "required", JArr(<<JS("b"), JS("a")>>)),
   Typed("object"),
   Ref(<<"#", "/", "definitions", "/", "o">>),
   O3("type", JS("object"), "properties", O1("own", Typed("string")),
      "$ref", JStr(<<"#", "/", "definitions", "/", "o">>)),
   Ref(<<"#", "/", "nowhere">>),
   O2("type", JS("object"), "$ref", JStr(<<"#", "/", "nowhere">>)),
   O2("type", JS("array"), "items", Typed("string")),
   O3("type", JS("array"), "items", JArr(<<Typed("number")>>),
      "ordered", JArr(<<Typed("boolean")>>)),
   Typed("array"),
   Ref(<<"#", "/", "definitions", "/", "arr">>),
   Typed("string"),
   JObj(<<>>, <<>>)}

AllOfLists == UNION {[1..n -> MemberShapes] : n \in 0..MaxAllOf}

AllOfInputs ==
  {Plain(O2("allOf", JArr(l), "definitions", Definitions)) : l \in AllOfLists}
  \cup {Plain(O1("allOf", Typed("object"))),
        Plain(O1("anyOf", Typed("object"))),
        Plain(O1("oneOf", JS("string"))),
        Plain(O1("not", Typed("string")))}

\* references, with and without a registry of sub-schemas
Uris ==
  {<<"#", "/", "definitions", "/", "x">>,
   <<"#", "/", "definitions", "/", "s">>,
   <<"#", "/", "definitions", "/", "s", "/", "foo">>,
   <<"#", "/", "definitions", "/", "x", "/", "type">>,
   <<"#", "/", "definitions", "/", "x", "/", "type", "/", "z">>,
   <<"#", "/", "definitions", "/", "n", "/", "minimum", "/", "z">>,
   <<"#", "/", "definitions", "/", "zz">>,
   <<"#", "/", "definitions", "/", "zz", "/", "more">>,
   <<"#", "/", "definitions", "/", "arr", "/", "items", "/", "0">>,
   <<"#", "/", "definitions", "/", "y">>,
   <<"#">>,
   <<"other", "#", "/", "definitions", "/", "y">>,
   <<"other", "#">>,
   <<"other", "#", "/", "definitions", "/", "x">>,
   <<"nope", "#", "/", "definitions", "/", "x">>,
   <<"definitions", "/", "x">>,
   <<"doc", "/", "definitions", "/", "x">>,
   <<>>}

WithHash ==
  O2("type", JS("string"), "definitions", O1("y", Typed("number")))
WithoutHash ==
  O2("type", JS("null"), "definitions", O1("y", Typed("integer")))

Registries ==
  {JUndefined, JNull, JObj(<<>>, <<>>),
   O1("other#", WithHash),
   O1("other", WithoutHash),
   O2("other", WithoutHash, "other#", WithHash),
   O1("", WithoutHash),
   O1("#", WithHash),
   JNum(1)}

RefInputs ==
  {Input(O2("$ref", JStr(u), "definitions", Definitions), r, {}, "none", FALSE) :
     u \in Uris, r \in Registries}

\* the decorations of a typed node
Descriptions == {JUndefined, JStr(<<>>), JS("doc")}
Titles == {JUndefined, JStr(<<>>), JS("name")}
Defaults ==
  {JUndefined, JNum(0), JNum(5), JBool(FALSE), JBool(TRUE), JStr(<<>>), JS("x"),
   JNull}

DecorationInputs ==
  {Plain(Plus(Opt(Opt(Opt(JObj(<<>>, <<>>), "description", d), "title", t),
                  "default", f),
              "type", JS(n))) :
     d \in Descriptions, t \in Titles, f \in Defaults,
     n \in {"string", "number", "boolean"}}

\* the type keyword: one name, or a list of up to MaxTypes names
TypeNames ==
  {"integer", "number", "string", "boolean", "null", "int", "money", "bogus"}

TypeValues ==
  {JS(n) : n \in TypeNames}
  \cup UNION {{JArr([i \in 1..k |-> JS(l[i])]) : l \in [1..k -> TypeNames]} :
                k \in 0..MaxTypes}

Formats == {JUndefined, JS("int32"), JS("date")}

TypeInputs ==
  {Input(Opt(O3("type", t, "minimum", JNum(0), "maxLength", JNum(9)),
             "format", f),
         JUndefined, o.types, o.refineType, o.strictMode) :
     t \in TypeValues, f \in Formats,
     o \in {[types |-> {}, refineType |-> "none", strictMode |-> FALSE],
            [types |-> {"money"}, refineType |-> "alias", strictMode |-> TRUE]}}

\* the builders of arrays, objects and strings
Constraints ==
  {O4("type", JS("array"), "items", Typed("string"),
      "additionalItems", JBool(FALSE), "minItems", JNum(1)),
   O4("type", JS("array"), "items", JArr(<<Typed("string"), JS("number")>>),
      "additionalItems", JBool(FALSE), "uniqueItems", JBool(TRUE)),
   O3("type", JS("array"), "ordered", JArr(<<Typed("string")>>),
      "maxItems", JNum(2)),
   O2("type", JS("array"), "items", JArr(<<>>)),
   O3("type", JS("object"), "additionalProperties", JBool(TRUE),
      "minProperties", JNum(1)),
   O4("type", JS("object"), "properties", O1("a", Typed("string")),
      "additionalProperties", Typed("number"), "maxProperties", JNum(3)),
   O3("type", JS("object"), "properties", O1("a", Typed("string")),
      "required", JNum(1)),
   O3("type", JS("object"), "properties", O1("a", Typed("string")),
      "required", JS("a")),
   O3("type", JS("string"), "pattern", JS("^a"), "minLength", JNum(2)),
   O3("type", JS("string"), "format", JS("email"), "minLength", JNum(0)),
   O2("type", JS("string"), "enum", JArr(<<JS("a")>>)),
   O4("type", JS("string"), "format", JS("binary"), "minLength", JNum(0),
      "maxLength", JNum(4)),
   O4("type", JS("string"), "format", JS("date-time"), "minimum", JS("1-1-1970"),
      "maximum", JNum(0)),
   O2("type", JS("number"), "multipleOf", JNum(0)),
   O4("type", JS("integer"), "exclusiveMinimum", JNum(0),
      "exclusiveMaximum", JNum(9), "multipleOf", JNum(3)),
   O2("type", JS("object"),
      "properties", O2("a", Typed("string"), "b", Typed("string")))}

\* references that lead back to a node being resolved
Cycles ==
  {O2("type", JS("object"), "properties", O1("p", Ref(<<"#">>))),
   O2("type", JS("array"), "items", Ref(<<"#">>)),
   O1("anyOf", JArr(<<Typed("string"), Ref(<<"#">>)>>)),
   O2("allOf", JArr(<<Ref(<<"#", "/", "definitions", "/", "c">>)>>),
      "definitions",
      O1("c", O2("type", JS("object"), "properties", O1("p", Ref(<<"#">>))))),
   O2("$ref", JStr(<<"#", "/", "definitions", "/", "a">>),
      "definitions",
      O2("a", Ref(<<"#", "/", "definitions", "/", "b">>),
         "b", Ref(<<"#", "/", "definitions", "/", "a">>))),
   O2("type", JS("string"), "$ref", JStr(<<"#">>)),
   O2("type", JS("object"),
      "properties", O2("a", Typed("string"), "b", Ref(<<"#", "/", "properties", "/", "a">>)))}

OtherInputs ==
  {Input(c, JUndefined, {}, "none", m) : c \in Constraints \cup Cycles, m \in BOOLEAN}

Inputs ==
  DispatchInputs \cup ObjectInputs \cup AllOfInputs \cup RefInputs
  \cup DecorationInputs \cup TypeInputs \cup OtherInputs

Init ==
  \E in \in Inputs :
    LET a == LoadTree(<<>>, in.schema)
        b == LoadTree(a.h, in.subSchemas)
    IN /\ heap = b.h
       /\ input = b.h
       /\ schema = a.v
       /\ subSchemas = b.v
       /\ types = in.types
       /\ refineType = in.refineType
       /\ strictMode = in.strictMode
       /\ ctl = <<>>
       /\ vals = <<>>
       /\ status = "init"
       /\ result = Rule("none")
       /\ warned = FALSE

Spec == Init /\ [][Next]_vars

\* translate is one synchronous call: a step that can be taken is taken
FairSpec == Spec /\ WF_vars(Next)

(***************************************************************************)
(* The properties.                                                         *)
(***************************************************************************)
Finished == status \notin {"init", "running"}

\* the keywords of the dispatcher in the order of their priority, and the
\* function each is handed to
Priority == <<"type", "anyOf", "allOf", "oneOf", "not", "$ref", "enum">>
Handler ==
  <<"resolvetype", "resolveAnyOf", "resolveAllOf", "resolveOneOf", "resolveNot",
    "followRef", "enumOnly">>

PresentKeywords(h, node) ==
  {i \in 1..Len(Priority) : Truthy(h, Get(h, node, Priority[i]))}

ExpectedBranch(h, node) ==
  LET present == PresentKeywords(h, node)
  IN IF present # {}
     THEN Handler[CHOOSE i \in present : \A j \in present : i <= j]
     ELSE IF Tag(h, node) = "str" THEN "shorthand" ELSE "fallback"

\* C1: resolve(node) hands the node to the function of the first keyword, in
\* the order type, anyOf, allOf, oneOf, not, $ref, enum, whose value on the
\* node is truthy, whatever the other keywords of the node; with none, a
\* string goes to the shorthand and anything else to the fallback.
C1_FirstKeywordWins ==
  [][(Running /\ Top.op = "resolve" /\ ~Nullish(heap, Top.c)) =>
       /\ ctl' # <<>>
       /\ Head(ctl').c = Top.c
       /\ Head(ctl').op = ExpectedBranch(heap, Top.c)]_vars

\* a node with a type, an anyOf and a $ref has been handed to resolvetype
C1_Witness ==
  /\ Running /\ Top.op = "resolvetype"
  /\ Truthy(heap, Get(heap, Top.c, "$ref"))
  /\ Truthy(heap, Get(heap, Top.c, "anyOf"))

\* the root is an object schema: type "object", a mapping of properties and
\* a list of required names (or none)
ObjectSchema ==
  /\ Tag(input, schema) = "obj"
  /\ Tag(input, Get(input, schema, "type")) = "str"
  /\ TextOf(input, Get(input, schema, "type")) = "object"
  /\ Tag(input, Get(input, schema, "properties")) = "obj"
  /\ Tag(input, Get(input, schema, "required")) \in {"arr", "undefined"}
  /\ refineType = "none"

RequiredNames ==
  LET req == Items(input, Get(input, schema, "required"))
  IN {TextOf(input, req[i]) : i \in 1..Len(req)}

\* C2: in the rule of an object schema the child rule under a key is marked
\* required if and only if the key is listed in required.
C2_RequiredIffListed ==
  (status = "done" /\ ObjectSchema) =>
    \A i \in 1..Len(result.keys) :
      ("required" \in result.kids[i].flags) <=> (result.keys[i] \in RequiredNames)

DocumentedErrors ==
  {"ConfigurationError", "ShapeError", "ReferenceError", "UnresolvedTypeError",
   "MergeTypeError"}

\* C5: translate returns a rule or fails with one of the five documented
\* kinds of error, never with another kind.
C5_OnlyDocumentedErrors ==
  status \in {"init", "running", "done"} \cup DocumentedErrors

\* C6: no cell of the root schema or of the registry is changed by translate.
C6_InputsUnchanged ==
  \A i \in 1..Len(input) : heap[i] = input[i]

Decorations ==
  <<<<"description", "description">>, <<"title", "label">>, <<"default", "default">>>>

\* C8: for a root resolved by type resolution, the rule carries the
\* description, label and default exactly for the keys present on the node,
\* with the node's value.
C8_DecorationsIffPresent ==
  (status = "done" /\ Tag(input, schema) = "obj"
     /\ Classify(input, schema) = "resolvetype") =>
    \A i \in 1..Len(Decorations) :
      LET key == Decorations[i][1]
          applied == {j \in 1..Len(result.attrs) : result.attrs[j].a = Decorations[i][2]}
      IN IF IndexOf(input[schema].k, key) # 0
         THEN \E j \in applied :
                result.attrs[j] = Attr(Decorations[i][2], input, Get(input, schema, key))
         ELSE applied = {}

(***************************************************************************)
(* The reference resolver, as the specification words it.                  *)
(***************************************************************************)
\* the text of the $ref of the node on top, cut at its first "#"
Uri == heap[Get(heap, Top.c, "$ref")].s
IdPrefix == SubSeq(Uri, 1, IndexOf(Uri, "#"))
FragmentPath == SubSeq(Uri, IndexOf(Uri, "#") + 1, Len(Uri))
Segments == Tail(Split(FragmentPath, "/"))

ClaimedCandidate ==
  LET exact == Get(heap, subSchemas, Text(IdPrefix))
      stripped == Get(heap, subSchemas, Text(SubSeq(IdPrefix, 1, Len(IdPrefix) - 1)))
  IN IF IdPrefix # <<>> /\ Truthy(heap, subSchemas)
     THEN (IF Truthy(heap, exact) THEN exact
           ELSE IF Truthy(heap, stripped) THEN stripped ELSE schema)
     ELSE schema

\* indexing segment by segment, stopping at and returning the first value
\* that is not a mapping
RECURSIVE Reached(_, _)
Reached(v, segs) ==
  IF segs = <<>> \/ Tag(heap, v) \notin {"obj", "arr"} THEN v
  ELSE Reached(Get(heap, v, Text(Head(segs))), Tail(segs))

\* the same, where indexing a value that is there but is not a mapping
\* gives false
RECURSIVE ReachedOrFalse(_, _)
ReachedOrFalse(v, segs) ==
  IF segs = <<>> \/ ~Truthy(heap, v) THEN v
  ELSE IF Tag(heap, v) \notin {"obj", "arr"} THEN False
  ELSE ReachedOrFalse(Get(heap, v, Text(Head(segs))), Tail(segs))

FollowsRef ==
  /\ Running /\ Top.op = "followRef"
  /\ Tag(heap, Get(heap, Top.c, "$ref")) = "str"

\* C4 as stated: resolveRef returns the value reached in the candidate schema
\* by the segments after the first, stopping at the first value that is not
\* a mapping or is missing, and returning that value.
C4_ReturnsValueReached ==
  [][FollowsRef =>
       /\ status' = "running"
       /\ Head(ctl') = Task("resolve", Reached(ClaimedCandidate, Segments), "", 0)]_vars

\* C4 as amended: the same, but when segments remain at a value that is
\* there and is not a mapping (a non-empty string, a number other than 0,
\* true) the result is false, not that value.
C4_ReturnsValueReachedOrFalse ==
  [][FollowsRef =>
       /\ status' = "running"
       /\ Head(ctl') = Task("resolve", ReachedOrFalse(ClaimedCandidate, Segments),
                            "", 0)]_vars

\* a reference was found in the registry under the id less its "#", and the
\* schema it points to was resolved
C4_Witness ==
  /\ status = "done"
  /\ Tag(input, schema) = "obj"
  /\ Classify(input, schema) = "followRef"
  /\ Truthy(input, subSchemas)
  /\ ~Truthy(input, Get(input, subSchemas, "other#"))
  /\ "integer" \in result.flags

(***************************************************************************)
(* The merge of allOf.                                                     *)
(***************************************************************************)
AllOfMembers == Items(heap, Get(heap, Top.c, "allOf"))

\* what the $ref of a member points to
Target(m) == resolveref(heap, schema, subSchemas, Get(heap, m, "$ref")).v

HasType(m) == Truthy(heap, Get(heap, m, "type"))
HasRef(m) == Truthy(heap, Get(heap, m, "$ref"))

IsObjectType(h, v) == Tag(h, v) = "str" /\ TextOf(h, v) = "object"

\* an object schema, directly or through its $ref; a $ref it carries
\* points to a schema
ObjectMember(m) ==
  /\ HasRef(m) => ~Nullish(heap, Target(m))
  /\ IF HasType(m) THEN IsObjectType(heap, Get(heap, m, "type"))
     ELSE HasRef(m) /\ IsObjectType(heap, Get(heap, Target(m), "type"))

MergesObjects ==
  /\ Running /\ Top.op = "resolveAllOf"
  /\ isArray(heap, Get(heap, Top.c, "allOf"))
  /\ AllOfMembers # <<>>
  /\ \A i \in 1..Len(AllOfMembers) : ObjectMember(AllOfMembers[i])

\* the schema a member stands for: itself when it is an object schema
\* directly, the target of its $ref when it is one through its $ref
OwnOrTarget == [i \in 1..Len(AllOfMembers) |->
                  IF HasType(AllOfMembers[i]) THEN AllOfMembers[i]
                  ELSE Target(AllOfMembers[i])]

\* the schema a member stands for: the target of its $ref whenever it has a
\* $ref, itself otherwise
TargetOrOwn == [i \in 1..Len(AllOfMembers) |->
                  IF HasRef(AllOfMembers[i]) THEN Target(AllOfMembers[i])
                  ELSE AllOfMembers[i]]

KeySet(h, props) == {Keys(h, props)[j] : j \in 1..Len(Keys(h, props))}

\* node is the merge of the schemas of from: type object, the union of
\* their properties where the last to define a key wins, their required
\* lists one after the other (no required when that is empty)
MergedFrom(h, node, from) ==
  LET props == Get(h, node, "properties")
      propsOf(i) == Get(h, from[i], "properties")
      definers(k) == {i \in 1..Len(from) : k \in KeySet(h, propsOf(i))}
      last(k) == CHOOSE i \in definers(k) : \A j \in definers(k) : j <= i
      cat[i \in 0..Len(from)] ==
        IF i = 0 THEN <<>>
        ELSE cat[i - 1] \o Items(h, Get(h, from[i], "required"))
  IN /\ IsObjectType(h, Get(h, node, "type"))
     /\ Tag(h, props) = "obj"
     /\ KeySet(h, props) = UNION {KeySet(h, propsOf(i)) : i \in 1..Len(from)}
     /\ \A k \in KeySet(h, props) : Get(h, props, k) = Get(h, propsOf(last(k)), k)
     /\ IF cat[Len(from)] = <<>>
        THEN Get(h, node, "required") = Undefined
        ELSE Items(h, Get(h, node, "required")) = cat[Len(from)]

ResolvesMergeOf(from) ==
  /\ status' = "running"
  /\ Head(ctl').op = "resolve"
  /\ Tail(ctl') = Tail(ctl)
  /\ Head(ctl').c > Len(heap)
  /\ MergedFrom(heap', Head(ctl').c, from)

MemberType(m) ==
  IF HasType(m) THEN Get(heap, m, "type")
  ELSE IF HasRef(m) /\ ~Nullish(heap, Target(m)) THEN Get(heap, Target(m), "type")
  ELSE Undefined

Mergeable(members) ==
  \A i \in 1..Len(members) :
    /\ Tag(heap, MemberType(members[i])) = "str"
    /\ TextOf(heap, MemberType(members[i])) \in {"array", "object"}
    /\ TextOf(heap, MemberType(members[i])) = TextOf(heap, MemberType(members[1]))

\* C7: an allOf whose members do not all have the type of the first, that
\* being array or object, fails with the merge-type error before any merge.
C7_MergeTypeErrorOtherwise ==
  [][(Running /\ Top.op = "resolveAllOf" /\ isArray(heap, Get(heap, Top.c, "allOf"))
        /\ ~Mergeable(AllOfMembers))
       => (status' = "MergeTypeError" /\ heap' = heap)]_vars

(***************************************************************************)
(* Lists of types.                                                         *)
(***************************************************************************)
TypeListRoot ==
  /\ Tag(input, schema) = "obj"
  /\ isArray(input, Get(input, schema, "type"))

TypeAt(i) == input[Get(input, schema, "type")].c[i]

RefinedAt(i) ==
  Refine(refineType, TextOf(input, TypeAt(i)),
         TextOf(input, Get(input, schema, "format")))

\* the rule type resolution builds for the root with its type replaced by
\* the i-th name of the list
SingleTypeRule(i) ==
  LET single == [input EXCEPT ![schema].c[IndexOf(input[schema].k, "type")] = TypeAt(i)]
  IN Strict(strictMode, joischema(single, types, schema, RefinedAt(i)).rule)

\* C9: the rule of a list of types is the alternation, in order, of the
\* rules of the same node with each single type; the alternative of integer
\* carries the integral constraint, also when refineType gave that type.
C9_AlternativesAsSingleTypes ==
  (status = "done" /\ TypeListRoot) =>
    /\ result.kind = "alternatives"
    /\ Len(result.kids) = Len(Items(input, Get(input, schema, "type")))
    /\ \A i \in 1..Len(result.kids) :
         /\ result.kids[i] = SingleTypeRule(i)
         /\ RefinedAt(i) = "integer" => "integer" \in result.kids[i].flags

(***************************************************************************)
(* Termination.                                                            *)
(***************************************************************************)
\* a node is entered by resolve while its resolution is in progress
ReEntered ==
  \E i, j \in 1..Len(ctl) :
    i < j /\ ctl[i].op = "leave" /\ ctl[j].op = "leave" /\ ctl[i].c = ctl[j].c

====
